---- MODULE Spec2Model ----
(***************************************************************************)
(* QR scanning and duplicate detection of ticket-stamp-scan-track.         *)
(*                                                                         *)
(* Part I   scan validation and history: Scanner.processQRCode and the     *)
(*          useScanResults hook (load, live updates, addScanResult)        *)
(*          against the scan_results table.                                *)
(* Part II  loadScanResults with its retry logic.                          *)
(* Part III the useQRScanner frame loop with its detection debounce.       *)
(*                                                                         *)
(* The repository holds several revisions of each hook; the revision is a  *)
(* variable fixed by Init, so every property is checked on each of them.   *)
(* Timestamps shown to the user (scanTime) play no part in any decision of *)
(* the code and are left out of the rows.                                  *)
(***************************************************************************)
EXTENDS Integers, Sequences, FiniteSets, TLC

(***************************************************************************)
(* Bounds of the model.                                                    *)
(***************************************************************************)
\* rows the scan_results table may hold
MaxRows == 2
\* `.limit(50)` of the query, scaled to the size of the bounded table
MaxRecent == 2
\* `.limit(25)` of the reduced-limit revision, scaled likewise
MaxRecentReduced == 1

NoUser == "none"
Users == {"u1", "u2"}

(***************************************************************************)
(* Raw payloads: the strings that reach processQRCode.                     *)
(***************************************************************************)
RawNotJson == "not json"
RawNull == "null"
RawE7 == "{\"eventName\":\"E\",\"ticketNumber\":7}"
RawF7 == "{\"eventName\":\"F\",\"ticketNumber\":7}"
RawFoo == "{\"foo\":\"bar\"}"
RawInvalid0 == "{\"eventName\":\"Invalid\",\"ticketNumber\":0}"

RawInputs == {RawNotJson, RawNull, RawE7, RawF7, RawFoo, RawInvalid0}

\* JSON.parse: throws on text that is not JSON, yields null for "null", and
\* an object holding exactly the members written in the text otherwise.
JSONParse(raw) ==
  CASE raw = RawNotJson -> [kind |-> "throw", value |-> [none |-> 0]]
    [] raw = RawNull -> [kind |-> "null", value |-> [none |-> 0]]
    [] raw = RawE7 -> [kind |-> "object", value |-> [eventName |-> "E", ticketNumber |-> 7]]
    [] raw = RawF7 -> [kind |-> "object", value |-> [eventName |-> "F", ticketNumber |-> 7]]
    [] raw = RawFoo -> [kind |-> "object", value |-> [foo |-> "bar"]]
    [] raw = RawInvalid0 -> [kind |-> "object", value |-> [eventName |-> "Invalid", ticketNumber |-> 0]]

\* a member read of a parsed object: present or undefined
Has(obj, field) == field \in DOMAIN obj

(***************************************************************************)
(* processQRCode: the classification of the try block.                     *)
(***************************************************************************)
\* the match on the ticket number alone, for comparison with MatchesTicket
MatchesTicketNumberOnly(result, ticketData) ==
  /\ Has(ticketData, "ticketNumber")
  /\ result.ticketNumber = ticketData.ticketNumber

\* result.eventName === ticketData.eventName &&
\* result.ticketNumber === ticketData.ticketNumber  (undefined equals no stored value)
MatchesTicket(result, ticketData) ==
  /\ Has(ticketData, "eventName")
  /\ Has(ticketData, "ticketNumber")
  /\ result.eventName = ticketData.eventName
  /\ result.ticketNumber = ticketData.ticketNumber

\* every ticket counted as already scanned, for comparison with existingScan
existingScanAlways(history, ticketData) == TRUE

\* scanResults.find(...) !== undefined
existingScan(history, ticketData) ==
  \E i \in 1..Len(history) : MatchesTicket(history[i], ticketData)

\* ticketData.eventName || 'Unknown Event'
EventNameOrDefault(ticketData) ==
  IF Has(ticketData, "eventName") /\ ticketData.eventName # ""
    THEN ticketData.eventName
    ELSE "Unknown Event"

\* ticketData.ticketNumber || 0
TicketNumberOrDefault(ticketData) ==
  IF Has(ticketData, "ticketNumber") /\ ticketData.ticketNumber # 0
    THEN ticketData.ticketNumber
    ELSE 0

\* scanResultData of the try block
ClassifyTicket(history, ticketData) ==
  [eventName |-> EventNameOrDefault(ticketData),
   ticketNumber |-> TicketNumberOrDefault(ticketData),
   status |-> IF existingScan(history, ticketData) THEN "duplicate" ELSE "valid",
   message |-> IF existingScan(history, ticketData)
                 THEN "Ticket already scanned!"
                 ELSE "Valid ticket - Access granted"]

\* the result the catch block would build with the fallback name of the try
\* block, for comparison with InvalidResult
InvalidResultUnknownEvent ==
  [eventName |-> "Unknown Event", ticketNumber |-> 0,
   status |-> "invalid", message |-> "Invalid QR code format"]

\* scanResultData of the catch block
InvalidResult ==
  [eventName |-> "Invalid", ticketNumber |-> 0,
   status |-> "invalid", message |-> "Invalid QR code format"]

\* the try block throws before it reaches addScanResult: JSON.parse rejects the
\* text, or the text is "null" and the member read of null raises a TypeError
TryThrows(raw) == JSONParse(raw).kind # "object"

\* the toast shown when the block that called addScanResult goes on
ToastOf(status) ==
  CASE status = "valid" -> "toastValid"
    [] status = "duplicate" -> "toastDuplicate"
    [] status = "invalid" -> "toastInvalid"

(***************************************************************************)
(* The scan_results table and the query of loadScanResults.                *)
(***************************************************************************)
NewRow(id, u, result) ==
  [id |-> id, user_id |-> u, event_name |-> result.eventName,
   ticket_number |-> result.ticketNumber, status |-> result.status,
   message |-> result.message]

\* the mapping of a table row to a ScanResult
FormatRow(row) ==
  [id |-> row.id, eventName |-> row.event_name, ticketNumber |-> row.ticket_number,
   status |-> row.status, message |-> row.message]

FormatRows(rows) == [i \in 1..Len(rows) |-> FormatRow(rows[i])]

\* the rows in the order of the table, for comparison with Reverse
OldestFirst(s) == s

Reverse(s) == [i \in 1..Len(s) |-> s[Len(s) + 1 - i]]

Take(s, n) == IF Len(s) <= n THEN s ELSE SubSeq(s, 1, n)

RowsOf(table, u) == SelectSeq(table, LAMBDA r : r.user_id = u)

\* .eq('user_id', user.id).order('created_at', {ascending: false}).limit(n)
QueryRecent(table, u, n) == Take(Reverse(RowsOf(table, u)), n)

(***************************************************************************)
(* State.                                                                  *)
(***************************************************************************)
VARIABLES
  page,            \* revision of the Scanner page: "local" keeps the history in
                   \* component state only, "hooks" uses useScanResults;
                   \* "dashboard" is the Dashboard page, which uses it too
  resultsVariant,  \* revision of useScanResults
  user,            \* useAuth().user of the current render
  mountUser,       \* useAuth().user of the first render
  store,           \* the scan_results table, oldest row first
  scanResults,     \* the in-memory history, newest first
  isLoading,
  channel,         \* the live-update subscription and its undelivered INSERTs
  load,            \* the loadScanResults calls in flight, one per slot
  att              \* the run of processQRCode in flight, or the last one

scanVars ==
  <<page, resultsVariant, user, mountUser, store, scanResults, isLoading,
    channel, load, att>>

VARIABLES
  scannerVariant,     \* revision of useQRScanner
  autoCloseOnScan,    \* the prop of the two revisions that take it
  isScanning,         \* the prop of the current render
  lastDetectedCode,   \* debounce state of the current render
  lastDetectionTime,
  effectPending,      \* a render changed the dependencies of the start effect,
                      \* which has not run yet
  pendingFrames,      \* callbacks handed to requestAnimationFrame, not yet run
  pendingTimers,      \* callbacks handed to setTimeout, not yet run
  now,                \* Date.now()
  epoch,              \* how often isScanning became true
  delivered,          \* the calls of onQRCodeDetected made so far
  handled             \* how many of them have reached processQRCode

VARIABLES
  stream,             \* the `stream` state of the render on screen: the number
                      \* of the MediaStream, 0 for null
  liveTracks,         \* the MediaStreams whose tracks have not been stopped
  autoClosed          \* how many auto-close timers of handleQRCodeDetected ran

camVars == <<stream, liveTracks, autoClosed>>

loopVars ==
  <<scannerVariant, autoCloseOnScan, isScanning, lastDetectedCode,
    lastDetectionTime, effectPending, pendingFrames, pendingTimers, now,
    epoch, delivered, handled, camVars>>

\* `retryCount < 3` and `retryCount < 2`
RetryCeiling30 == 3
RetryCeiling8 == 2
\* the waits before a retry, in ms
BackoffBase == 1000
BackoffCap == 5000

\* revisions of useScanResults that subscribe to INSERT notifications
Realtime(v) == v \in {"plain", "retry8", "retry30"}

\* `.limit(...)` of the revision
QueryLimit(v) == IF v = "retry30" THEN MaxRecentReduced ELSE MaxRecent

\* the ceiling with `retryCount <= ...` in place of `retryCount < ...`, for
\* comparison with RetryCeiling
RetryCeilingInclusive(v) ==
  CASE v = "retry30" -> RetryCeiling30 + 1
    [] v = "retry8" -> RetryCeiling8 + 1
    [] OTHER -> 0

\* `retryCount < ...` of the revision: retries allowed after the first attempt
RetryCeiling(v) ==
  CASE v = "retry30" -> RetryCeiling30
    [] v = "retry8" -> RetryCeiling8
    [] OTHER -> 0

NoChannel == [user |-> NoUser, queue |-> <<>>]

\* the subscription effect: one channel filtered on the user's id
Subscribe(v, u) ==
  IF Realtime(v) /\ u # NoUser THEN [user |-> u, queue |-> <<>>] ELSE NoChannel

\* the store publishes an INSERT to the channel whose filter matches the row
Publish(ch, row) ==
  IF ch.user # NoUser /\ ch.user = row.user_id
    THEN [ch EXCEPT !.queue = Append(@, row)]
    ELSE ch

IdleLoad ==
  [pc |-> "idle", user |-> NoUser, retryCount |-> 0, attempts |-> 0,
   data |-> <<>>, delay |-> 0, last |-> "none"]

\* a request of loadScanResults leaves for the store, which answers from the
\* rows it holds at that moment
LoadRequest(v, table, u, retryCount, attempts) ==
  [pc |-> "inflight", user |-> u, retryCount |-> retryCount,
   attempts |-> attempts + 1, data |-> QueryRecent(table, u, QueryLimit(v)),
   delay |-> 0, last |-> "none"]

\* the calls of loadScanResults that overlap: every call is an async function
\* of its own, and nothing in the hook keeps a later call from starting while
\* an earlier one is waiting
MaxLoads == 2
MaxLoadsScan == 1
LoadSlots == 1..MaxLoads
NoLoads == [s \in LoadSlots |-> IdleLoad]

\* the slot a new call takes when at most n calls overlap, 0 when there is none
FreeSlot(loads, n) ==
  LET free == {s \in 1..n : loads[s].pc = "idle"}
  IN IF free = {} THEN 0 ELSE CHOOSE s \in free : \A t \in free : s <= t

IdleAttempt ==
  [pc |-> "idle", src |-> "none", raw |-> "none", user |-> NoUser,
   seen |-> <<>>, tryResult |-> InvalidResult,
   submitted |-> InvalidResult, inserts |-> 0, failed |-> 0, rows |-> <<>>,
   outcome |-> "none"]

\* processQRCode up to its first await. `history` and `u` are the scanResults
\* and the user of the render whose closure runs. addScanResult returns at
\* once when that user is null, and the calling block goes on to its toast.
BeginAttempt(src, raw, history, u) ==
  LET threw == TryThrows(raw)
      result == IF threw THEN InvalidResult
                ELSE ClassifyTicket(history, JSONParse(raw).value)
  IN [pc |-> IF u = NoUser THEN "done"
             ELSE IF threw THEN "insertCatch" ELSE "insertTry",
      src |-> src, raw |-> raw, user |-> u,
      seen |-> history,
      tryResult |-> result, submitted |-> result,
      inserts |-> IF u = NoUser THEN 0 ELSE 1,
      failed |-> 0, rows |-> <<>>,
      outcome |-> IF u = NoUser THEN ToastOf(result.status) ELSE "pending"]

\* the catch block of processQRCode after addScanResult threw in the try block:
\* it submits the invalid result through addScanResult again
CatchAfterInsertError(a) ==
  [a EXCEPT !.pc = "insertCatch", !.submitted = InvalidResult,
            !.inserts = @ + 1, !.failed = @ + 1]

\* addScanResult threw inside the catch block: the rejection leaves processQRCode
ThrowFromCatch(a) == [a EXCEPT !.pc = "done", !.outcome = "threw", !.failed = @ + 1]

\* the result another session inserts for user u: a scan of ticket 7 of event
\* E, classified against the rows of u that the table holds
OtherResult(table, u) ==
  ClassifyTicket(FormatRows(RowsOf(table, u)), JSONParse(RawE7).value)

\* the users that sign in on this page
SessionUsers == {"u1"}

(***************************************************************************)
(* Part I: actions of the Scanner page and of useScanResults.              *)
(***************************************************************************)
\* Scanner.tsx (first revision): processQRCode on component state, no store
\* and no sign-in; the run is recorded under a fixed user name
ProcessLocal(raw) ==
  /\ page = "local"
  /\ Len(scanResults) < MaxRows
  /\ LET a == BeginAttempt("manual", raw, scanResults, "u1")
         r == [id |-> Len(scanResults) + 1] @@ a.submitted
     IN /\ scanResults' = <<r>> \o scanResults
        /\ att' = [a EXCEPT !.pc = "done", !.inserts = 0,
                            !.outcome = ToastOf(a.submitted.status)]
  /\ UNCHANGED loopVars
  /\ UNCHANGED <<page, resultsVariant, user, mountUser, store, isLoading, channel, load>>

\* handleManualScan: processQRCode of the current render
HandleManualScan(raw) ==
  /\ page = "hooks"
  /\ att.pc \in {"idle", "done"}
  /\ att' = BeginAttempt("manual", raw, scanResults, user)
  /\ UNCHANGED loopVars
  /\ UNCHANGED <<page, resultsVariant, user, mountUser, store, scanResults,
                 isLoading, channel, load>>

\* handleQRCodeDetected: memoised with no dependencies, it runs the processQRCode
\* of the first render, whose scanResults is the initial [] and whose
\* addScanResult holds the user of the first render
HandleQRCodeDetected(raw) ==
  /\ page = "hooks"
  /\ att.pc \in {"idle", "done"}
  /\ att' = BeginAttempt("camera", raw, <<>>, mountUser)
  /\ UNCHANGED loopVars
  /\ UNCHANGED <<page, resultsVariant, user, mountUser, store, scanResults,
                 isLoading, channel, load>>

\* the store accepts the insert of addScanResult (row-level security admits
\* rows of the authenticated user only)
InsertCommit ==
  /\ att.pc \in {"insertTry", "insertCatch"}
  /\ att.user = user
  /\ Len(store) < MaxRows
  /\ LET row == NewRow(Len(store) + 1, att.user, att.submitted)
     IN /\ store' = Append(store, row)
        /\ channel' = Publish(channel, row)
        /\ att' = [att EXCEPT !.pc = IF @ = "insertTry" THEN "respTry" ELSE "respCatch",
                              !.rows = Append(@, row.id)]
  /\ UNCHANGED loopVars
  /\ UNCHANGED <<page, resultsVariant, user, mountUser, scanResults, isLoading, load>>

\* addScanResult receives the inserted row and returns it; the revision without
\* live updates prepends it to scanResults; processQRCode shows its toast
InsertReturn ==
  /\ att.pc \in {"respTry", "respCatch"}
  /\ LET row == store[att.rows[Len(att.rows)]]
     IN scanResults' = IF resultsVariant = "local"
                         THEN <<FormatRow(row)>> \o scanResults
                         ELSE scanResults
  /\ att' = [att EXCEPT !.pc = "done", !.outcome = ToastOf(att.submitted.status)]
  /\ UNCHANGED loopVars
  /\ UNCHANGED <<page, resultsVariant, user, mountUser, store, isLoading, channel, load>>

\* the insert fails (network or store error): addScanResult rethrows
InsertError ==
  /\ att.pc \in {"insertTry", "insertCatch"}
  /\ att' = IF att.pc = "insertTry" THEN CatchAfterInsertError(att)
            ELSE ThrowFromCatch(att)
  /\ UNCHANGED loopVars
  /\ UNCHANGED <<page, resultsVariant, user, mountUser, store, scanResults,
                 isLoading, channel, load>>

\* the new result put behind the list, for comparison with MergeInsert
MergeInsertAtEnd(newResult, prev) == Append(prev, newResult)

\* `[newResult, ...prev]` of the subscription callback
MergeInsert(newResult, prev) == <<newResult>> \o prev

\* the subscription callback: setScanResults(prev => [newResult, ...prev])
DeliverInsert ==
  /\ channel.queue # <<>>
  /\ scanResults' = MergeInsert(FormatRow(Head(channel.queue)), scanResults)
  /\ channel' = [channel EXCEPT !.queue = Tail(@)]
  /\ UNCHANGED loopVars
  /\ UNCHANGED <<page, resultsVariant, user, mountUser, store, isLoading, load, att>>

\* a row inserted by another session
OtherInsert(u) ==
  /\ page # "local"
  /\ Len(store) < MaxRows
  /\ LET row == NewRow(Len(store) + 1, u, OtherResult(store, u))
     IN /\ store' = Append(store, row)
        /\ channel' = Publish(channel, row)
  /\ UNCHANGED loopVars
  /\ UNCHANGED <<page, resultsVariant, user, mountUser, scanResults, isLoading, load, att>>

(***************************************************************************)
(* Part II: loadScanResults.                                               *)
(***************************************************************************)
\* what an attempt of the query can end in, other than data:
\*   "timeout"  error.code '57014' or a message holding 'timeout'
\*   "fetch"    a message holding 'Failed to fetch'
\*   "abort"    an AbortError result (code '20'), the abort of the timeout timer
\*   "other"    any other error result
\*   "thrown"   the awaited call rejects
LoadErrors == {"timeout", "fetch", "abort", "other", "thrown"}

\* the test that guards the retry of the revision
IsRetryable(v, kind) ==
  CASE v = "retry30" -> kind \in {"timeout", "fetch", "abort"}
    [] v = "retry8" -> kind \in {"timeout", "fetch"}
    [] OTHER -> FALSE

RECURSIVE Pow2(_)
Pow2(k) == IF k = 0 THEN 1 ELSE 2 * Pow2(k - 1)

Min(a, b) == IF a <= b THEN a ELSE b

\* the wait before the retry that follows attempt `retryCount`
BackoffDelay(v, retryCount) ==
  IF v = "retry30" THEN Min(BackoffBase * Pow2(retryCount), BackoffCap)
  ELSE BackoffBase

\* the periodic refresh of the Scanner page: loadScanResults() unless isLoading
LoadStart(n) ==
  /\ page = "hooks"
  /\ ~isLoading
  /\ IF user = NoUser
       THEN /\ scanResults' = <<>>
            /\ load' = load
       ELSE /\ FreeSlot(load, n) # 0
            /\ load' = [load EXCEPT ![FreeSlot(load, n)] =
                          LoadRequest(resultsVariant, store, user, 0, 0)]
            /\ scanResults' = scanResults
  /\ UNCHANGED loopVars
  /\ UNCHANGED <<page, resultsVariant, user, mountUser, store, isLoading, channel, att>>

\* the refresh of the Dashboard page, when its events change and every 15 s:
\* loadScanResults() with no test at all
DashboardRefresh(n) ==
  /\ page = "dashboard"
  /\ IF user = NoUser
       THEN /\ scanResults' = <<>>
            /\ isLoading' = FALSE
            /\ load' = load
       ELSE /\ FreeSlot(load, n) # 0
            /\ load' = [load EXCEPT ![FreeSlot(load, n)] =
                          LoadRequest(resultsVariant, store, user, 0, 0)]
            /\ UNCHANGED <<scanResults, isLoading>>
  /\ UNCHANGED loopVars
  /\ UNCHANGED <<page, resultsVariant, user, mountUser, store, channel, att>>

\* the query of the call in slot s answers with data:
\* setScanResults(formattedResults); finally
LoadReturn(s) ==
  /\ load[s].pc = "inflight"
  /\ scanResults' = FormatRows(load[s].data)
  /\ isLoading' = FALSE
  /\ load' = [load EXCEPT ![s] =
                [IdleLoad EXCEPT !.attempts = load[s].attempts, !.last = "ok"]]
  /\ UNCHANGED loopVars
  /\ UNCHANGED <<page, resultsVariant, user, mountUser, store, channel, att>>

\* the query ends in an error: retry after a wait when the revision retries it
\* and the ceiling is not reached, else catch: setScanResults([]); finally
LoadError(s, kind) ==
  /\ load[s].pc = "inflight"
  /\ IF /\ kind # "thrown"
        /\ IsRetryable(resultsVariant, kind)
        /\ load[s].retryCount < RetryCeiling(resultsVariant)
       THEN /\ load' = [load EXCEPT ![s] =
                          [load[s] EXCEPT !.pc = "backoff", !.last = kind,
                             !.delay = BackoffDelay(resultsVariant, load[s].retryCount)]]
            /\ UNCHANGED <<scanResults, isLoading>>
       ELSE /\ scanResults' = <<>>
            /\ isLoading' = FALSE
            /\ load' = [load EXCEPT ![s] =
                          [IdleLoad EXCEPT !.attempts = load[s].attempts,
                                           !.last = "failed"]]
  /\ UNCHANGED loopVars
  /\ UNCHANGED <<page, resultsVariant, user, mountUser, store, channel, att>>

\* the wait is over: `return loadScanResults(retryCount + 1)` of the same
\* closure; the call is not awaited inside the try block, so the finally block
\* of the outer call runs as soon as the retry has sent its request
LoadRetry(s) ==
  /\ load[s].pc = "backoff"
  /\ load' = [load EXCEPT ![s] =
                LoadRequest(resultsVariant, store, load[s].user,
                            load[s].retryCount + 1, load[s].attempts)]
  /\ isLoading' = FALSE
  /\ UNCHANGED loopVars
  /\ UNCHANGED <<page, resultsVariant, user, mountUser, store, scanResults,
                 channel, att>>

\* the user becomes null: the load effect runs loadScanResults of the new render
\* (setScanResults([]), setIsLoading(false)) and the subscription is removed
SignOut ==
  /\ page # "local"
  /\ user # NoUser
  /\ user' = NoUser
  /\ scanResults' = <<>>
  /\ isLoading' = FALSE
  /\ channel' = NoChannel
  /\ UNCHANGED loopVars
  /\ UNCHANGED <<page, resultsVariant, mountUser, store, load, att>>

\* a user signs in: the load effect starts a load and the subscription is made
SignIn(u, n) ==
  /\ page # "local"
  /\ user = NoUser
  /\ FreeSlot(load, n) # 0
  /\ user' = u
  /\ load' = [load EXCEPT ![FreeSlot(load, n)] =
                LoadRequest(resultsVariant, store, u, 0, 0)]
  /\ channel' = Subscribe(resultsVariant, u)
  /\ UNCHANGED loopVars
  /\ UNCHANGED <<page, resultsVariant, mountUser, store, scanResults, isLoading, att>>

(***************************************************************************)
(* Part III: useQRScanner, the frame loop.                                 *)
(*                                                                         *)
(* scannerVariant names the revision:                                      *)
(*   "plain"     no debounce, the start effect runs scanQRCode at once     *)
(*   "stop"      2 s debounce, returns after a detection, startScanning    *)
(*   "auto2000"  2 s debounce, autoCloseOnScan, start after a 100 ms timer *)
(*   "auto1000"  1 s debounce, autoCloseOnScan, start at once              *)
(* A callback handed to requestAnimationFrame or setTimeout keeps the      *)
(* isScanning and the debounce state of the render that created it.        *)
(* React commits a render and runs its effects before the next callback.   *)
(***************************************************************************)
\* Date.now() when the page is mounted, and the step of the clock, in ms
StartTime == 5000
TimeStep == 1000
\* steps the clock may take
MaxClockSteps == 3
\* callbacks that may be pending, per kind
MaxPending == 3
\* calls of onQRCodeDetected that are recorded
MaxDeliveries == 3
\* times isScanning may become true
MaxStarts == 2

\* `currentTime - lastDetectionTime > 2000` and `> 1000`
DebounceMs == 2000
DebounceMsShort == 1000

ScannerVariants == {"plain", "stop", "auto2000", "auto1000"}

\* the payloads the decoder may return
LoopPayloads == {"A", "B"}

\* what a run of scanQRCode finds:
\*   "noRef"     videoRef.current or canvasRef.current is null
\*   "notReady"  no 2d context, or video.readyState is not HAVE_ENOUGH_DATA
\*   "zeroDim"   videoWidth or videoHeight is 0
\*   "noQR"      jsQR returns null
\*   "throws"    drawImage, getImageData or jsQR throws
\*   a payload   jsQR returns a code with that data
FrameKinds == {"noRef", "notReady", "zeroDim", "noQR", "throws"} \cup LoopPayloads

HasDebounce(v) == v # "plain"

DebounceWindow(v) == IF v = "auto1000" THEN DebounceMsShort ELSE DebounceMs

TakesAutoClose(v) == v \in {"auto2000", "auto1000"}

\* the revisions that test `videoWidth === 0 || videoHeight === 0`; the others
\* pass the zero size to getImageData, which throws
ChecksDimensions(v) == v \in {"stop", "auto2000"}

\* what scanQRCode of the current render has closed over
CurrentClosure ==
  [scanning |-> isScanning, code |-> lastDetectedCode, time |-> lastDetectionTime]

\* animationRef.current = requestAnimationFrame(scanQRCode)
RequestFrame(frames, c) ==
  Append([i \in 1..Len(frames) |-> [frames[i] EXCEPT !.ref = FALSE]],
         [c |-> c, ref |-> TRUE])

\* cancelAnimationFrame(animationRef.current)
CancelFrame(frames) == SelectSeq(frames, LAMBDA f : ~f.ref)

\* clearTimeout(timeout) of the effect cleanup
ClearTimer(timers) == SelectSeq(timers, LAMBDA t : ~t.handle)

RemoveAt(s, i) == [k \in 1..(Len(s) - 1) |-> IF k < i THEN s[k] ELSE s[k + 1]]

\* the debounce on the elapsed time alone, for comparison with PassesDebounce
PassesDebounceTimeOnly(v, c, payload, t) ==
  ~HasDebounce(v) \/ t - c.time > DebounceWindow(v)

\* the debounce on the payload alone, for comparison with PassesDebounce
PassesDebouncePayloadOnly(v, c, payload, t) ==
  ~HasDebounce(v) \/ payload # c.code

\* qrCode.data !== lastDetectedCode || currentTime - lastDetectionTime > window
PassesDebounce(v, c, payload, t) ==
  \/ ~HasDebounce(v)
  \/ payload # c.code
  \/ t - c.time > DebounceWindow(v)

\* the part of the state a run of scanQRCode may change, and whether the run
\* ended in an exception, which no revision catches
LoopState ==
  [code |-> lastDetectedCode, time |-> lastDetectionTime,
   frames |-> pendingFrames, delivered |-> delivered, threw |-> FALSE]

\* a detection that leaves lastDetectionTime as it is, for comparison with
\* Detected
DetectedKeepsTime(v, st, frame, t, ep) ==
  [st EXCEPT !.code = IF HasDebounce(v) THEN frame ELSE @,
             !.delivered = Append(@, [payload |-> frame, time |-> t, epoch |-> ep])]

\* setLastDetectedCode(qrCode.data); setLastDetectionTime(currentTime);
\* onQRCodeDetected(qrCode.data)
Detected(v, st, frame, t, ep) ==
  [st EXCEPT !.code = IF HasDebounce(v) THEN frame ELSE @,
             !.time = IF HasDebounce(v) THEN t ELSE @,
             !.delivered = Append(@, [payload |-> frame, time |-> t, epoch |-> ep])]

\* one run of scanQRCode of closure c on what the frame holds, at time t
ScanQRCode(v, auto, c, frame, t, ep, st) ==
  LET again == [st EXCEPT !.frames = RequestFrame(@, c)]
      thrown == [st EXCEPT !.threw = TRUE]
  IN IF frame = "noRef" \/ ~c.scanning THEN st
     ELSE IF frame = "notReady" THEN again
     ELSE IF frame = "zeroDim" THEN (IF ChecksDimensions(v) THEN again ELSE thrown)
     ELSE IF frame = "throws" THEN thrown
     ELSE IF frame = "noQR" THEN again
     ELSE IF PassesDebounce(v, c, frame, t)
       THEN LET hit == Detected(v, st, frame, t, ep)
            IN IF v = "stop" \/ (TakesAutoClose(v) /\ auto)
                 THEN hit
                 ELSE [hit EXCEPT !.frames = RequestFrame(@, c)]
       ELSE IF TakesAutoClose(v) /\ auto THEN st ELSE again

\* the state after a callback; a change of the debounce state renders again
\* and gives scanQRCode a new identity, so the start effect is due
Commit(st, timers, due) ==
  /\ Len(st.frames) <= MaxPending
  /\ Len(timers) <= MaxPending
  /\ Len(st.delivered) <= MaxDeliveries
  /\ lastDetectedCode' = st.code
  /\ lastDetectionTime' = st.time
  /\ pendingFrames' = st.frames
  /\ delivered' = st.delivered
  /\ pendingTimers' = timers
  /\ effectPending' = (due \/ st.code # lastDetectedCode \/ st.time # lastDetectionTime)

\* a callback of requestAnimationFrame runs
FrameTick(i, frame) ==
  /\ ~effectPending
  /\ i \in 1..Len(pendingFrames)
  /\ Commit(ScanQRCode(scannerVariant, autoCloseOnScan, pendingFrames[i].c, frame,
                       now, epoch,
                       [LoopState EXCEPT !.frames = RemoveAt(pendingFrames, i)]),
            pendingTimers, FALSE)
  /\ UNCHANGED <<scannerVariant, autoCloseOnScan, isScanning, now, epoch, handled>>
  /\ UNCHANGED camVars
  /\ UNCHANGED scanVars

\* a callback of setTimeout(() => scanQRCode(), 100) runs
TimerFire(i, frame) ==
  /\ ~effectPending
  /\ i \in 1..Len(pendingTimers)
  /\ Commit(ScanQRCode(scannerVariant, autoCloseOnScan, pendingTimers[i].c, frame,
                       now, epoch, LoopState),
            RemoveAt(pendingTimers, i), FALSE)
  /\ UNCHANGED <<scannerVariant, autoCloseOnScan, isScanning, now, epoch, handled>>
  /\ UNCHANGED camVars
  /\ UNCHANGED scanVars

\* the start effect runs after a render that changed isScanning or scanQRCode:
\* the cleanup of its previous run, then its body
RunStartEffect(frame) ==
  /\ effectPending
  /\ CASE scannerVariant \in {"plain", "auto1000"} ->
            LET cleaned == [LoopState EXCEPT !.frames = CancelFrame(@)]
            IN Commit(IF isScanning
                        THEN ScanQRCode(scannerVariant, autoCloseOnScan, CurrentClosure,
                                        frame, now, epoch, cleaned)
                        ELSE [cleaned EXCEPT !.frames = CancelFrame(@)],
                      pendingTimers, FALSE)
       [] scannerVariant = "auto2000" ->
            IF isScanning
              THEN Commit(LoopState,
                          Append(ClearTimer(pendingTimers),
                                 [c |-> CurrentClosure, handle |-> TRUE]),
                          FALSE)
              ELSE Commit([LoopState EXCEPT !.frames = CancelFrame(@)],
                          ClearTimer(pendingTimers), FALSE)
       [] scannerVariant = "stop" ->
            IF isScanning
              THEN Commit(LoopState,
                          Append(pendingTimers, [c |-> CurrentClosure, handle |-> FALSE]),
                          FALSE)
              ELSE Commit([LoopState EXCEPT !.frames = CancelFrame(@)],
                          pendingTimers, FALSE)
  /\ UNCHANGED <<scannerVariant, autoCloseOnScan, isScanning, now, epoch, handled>>
  /\ UNCHANGED camVars
  /\ UNCHANGED scanVars

\* the camera of the page, with the `stream` of the render on screen.
\* startCamera stops the tracks of the stream it holds and keeps the new one:
\* if (stream) stream.getTracks().forEach(track => track.stop());
\* setStream(mediaStream). stopCamera stops the tracks and clears the state:
\* if (stream) { ...track.stop(); setStream(null) }
StartStream(tracks, held, fresh) == (tracks \ {held}) \cup {fresh}

StopStream(tracks, held) == tracks \ {held}

\* the page sets isScanning. With the revision that exports startScanning and
\* stopScanning the page also calls them itself: startCamera does
\* setIsScanning(true); startScanning() and stopCamera does stopScanning();
\* setIsScanning(false), both with the functions of the render on screen
SetScanning(b) ==
  /\ ~effectPending
  /\ isScanning # b
  /\ b => epoch < MaxStarts
  /\ isScanning' = b
  /\ epoch' = IF b THEN epoch + 1 ELSE epoch
  /\ effectPending' = TRUE
  /\ IF scannerVariant = "stop"
       THEN IF b
              THEN /\ Len(pendingTimers) < MaxPending
                   /\ pendingTimers' = Append(pendingTimers,
                                              [c |-> CurrentClosure, handle |-> FALSE])
                   /\ pendingFrames' = pendingFrames
              ELSE /\ pendingFrames' = CancelFrame(pendingFrames)
                   /\ pendingTimers' = pendingTimers
       ELSE UNCHANGED <<pendingFrames, pendingTimers>>
  /\ IF b
       THEN /\ liveTracks' = StartStream(liveTracks, stream, epoch + 1)
            /\ stream' = epoch + 1
       ELSE /\ liveTracks' = StopStream(liveTracks, stream)
            /\ stream' = 0
  /\ UNCHANGED <<scannerVariant, autoCloseOnScan, lastDetectedCode, lastDetectionTime,
                 now, delivered, handled, autoClosed>>
  /\ UNCHANGED scanVars

\* time passes; the 100 ms start timers run before the clock steps
Advance ==
  /\ ~effectPending
  /\ pendingTimers = <<>>
  /\ now < StartTime + MaxClockSteps * TimeStep
  /\ now' = now + TimeStep
  /\ UNCHANGED <<scannerVariant, autoCloseOnScan, isScanning, lastDetectedCode,
                 lastDetectionTime, effectPending, pendingFrames, pendingTimers,
                 epoch, delivered, handled>>
  /\ UNCHANGED camVars
  /\ UNCHANGED scanVars

\* the ticket the QR code with payload p encodes
PayloadRaw(p) == IF p = "A" THEN RawE7 ELSE RawF7

\* onQRCodeDetected(qrCode.data) is handleQRCodeDetected, which runs the
\* processQRCode of the first render on the payload
OnQRCodeDetected ==
  /\ page = "hooks"
  /\ handled < Len(delivered)
  /\ att.pc \in {"idle", "done"}
  /\ att' = BeginAttempt("camera", PayloadRaw(delivered[handled + 1].payload),
                         <<>>, mountUser)
  /\ handled' = handled + 1
  /\ UNCHANGED <<scannerVariant, autoCloseOnScan, isScanning, lastDetectedCode,
                 lastDetectionTime, effectPending, pendingFrames, pendingTimers,
                 now, epoch, delivered>>
  /\ UNCHANGED camVars
  /\ UNCHANGED <<page, resultsVariant, user, mountUser, store, scanResults,
                 isLoading, channel, load>>

\* the 1500 ms timer of handleQRCodeDetected runs, after the run of
\* processQRCode it awaited has returned: stopCamera(). handleQRCodeDetected is
\* memoised with no dependencies, so this is the stopCamera of the first
\* render, whose `stream` is the initial null: it calls stopScanning() and
\* setIsScanning(false) and skips the block that stops the tracks
AutoCloseCamera ==
  /\ page = "hooks"
  /\ ~effectPending
  /\ autoClosed < handled
  /\ autoClosed + 1 < handled \/ (att.pc = "done" /\ att.outcome # "threw")
  /\ autoClosed' = autoClosed + 1
  /\ isScanning' = FALSE
  /\ effectPending' = isScanning
  /\ pendingFrames' = IF scannerVariant = "stop" THEN CancelFrame(pendingFrames)
                      ELSE pendingFrames
  /\ UNCHANGED <<stream, liveTracks>>
  /\ UNCHANGED <<scannerVariant, autoCloseOnScan, lastDetectedCode, lastDetectionTime,
                 pendingTimers, now, epoch, delivered, handled>>
  /\ UNCHANGED scanVars

\* the hook after its first render and effect: nothing scheduled
InitScanner(variants) ==
  /\ scannerVariant \in variants
  /\ autoCloseOnScan \in (IF TakesAutoClose(scannerVariant) THEN BOOLEAN ELSE {FALSE})
  /\ isScanning = FALSE
  /\ lastDetectedCode = ""
  /\ lastDetectionTime = 0
  /\ effectPending = FALSE
  /\ pendingFrames = <<>>
  /\ pendingTimers = <<>>
  /\ now = StartTime
  /\ epoch = 0
  /\ delivered = <<>>
  /\ handled = 0
  /\ stream = 0
  /\ liveTracks = {}
  /\ autoClosed = 0

(***************************************************************************)
(* Specifications.                                                         *)
(***************************************************************************)
vars == <<scanVars, loopVars>>

\* the page is mounted: history empty, isLoading true, the load effect has
\* started a load and the subscription effect has subscribed
InitHooks(variants) ==
  /\ page = "hooks"
  /\ resultsVariant \in variants
  /\ user = "u1"
  /\ mountUser = "u1"
  /\ store = <<>>
  /\ scanResults = <<>>
  /\ isLoading = TRUE
  /\ channel = Subscribe(resultsVariant, user)
  /\ load = [NoLoads EXCEPT ![1] = LoadRequest(resultsVariant, store, user, 0, 0)]
  /\ att = IdleAttempt

\* the Dashboard page is mounted: the same hook, and no scanner
InitDashboard(variants) ==
  /\ page = "dashboard"
  /\ resultsVariant \in variants
  /\ user = "u1"
  /\ mountUser = "u1"
  /\ store = <<>>
  /\ scanResults = <<>>
  /\ isLoading = TRUE
  /\ channel = Subscribe(resultsVariant, user)
  /\ load = [NoLoads EXCEPT ![1] = LoadRequest(resultsVariant, store, user, 0, 0)]
  /\ att = IdleAttempt

InitLocal ==
  /\ page = "local"
  /\ resultsVariant = "none"
  /\ user = NoUser
  /\ mountUser = NoUser
  /\ store = <<>>
  /\ scanResults = <<>>
  /\ isLoading = FALSE
  /\ channel = NoChannel
  /\ load = NoLoads
  /\ att = IdleAttempt

\* the scan pipeline, with the frame loop at rest
Init ==
  /\ InitLocal \/ InitHooks({"local", "plain"})
  /\ InitScanner({"plain"})

Next ==
  \/ \E raw \in RawInputs : ProcessLocal(raw)
  \/ \E raw \in RawInputs : HandleManualScan(raw)
  \/ \E raw \in RawInputs : HandleQRCodeDetected(raw)
  \/ InsertCommit
  \/ InsertReturn
  \/ InsertError
  \/ DeliverInsert
  \/ \E u \in Users : OtherInsert(u)
  \/ LoadStart(MaxLoadsScan)
  \/ \E s \in LoadSlots : LoadReturn(s)
  \/ \E s \in LoadSlots, kind \in LoadErrors : LoadError(s, kind)
  \/ SignOut
  \/ \E u \in SessionUsers : SignIn(u, MaxLoadsScan)

Spec == Init /\ [][Next]_vars

\* loadScanResults alone, on the revisions of useScanResults that differ in it
InitLoad ==
  /\ \/ InitHooks({"plain", "retry8", "retry30"})
     \/ InitDashboard({"plain", "retry8", "retry30"})
  /\ InitScanner({"plain"})

NextLoad ==
  \/ LoadStart(MaxLoads)
  \/ DashboardRefresh(MaxLoads)
  \/ \E s \in LoadSlots : LoadReturn(s)
  \/ \E s \in LoadSlots, kind \in LoadErrors : LoadError(s, kind)
  \/ \E s \in LoadSlots : LoadRetry(s)
  \/ DeliverInsert
  \/ \E u \in Users : OtherInsert(u)
  \/ SignOut
  \/ \E u \in SessionUsers : SignIn(u, MaxLoads)

SpecLoad == InitLoad /\ [][NextLoad]_vars

\* submits, inserts of other sessions and live updates on the revisions that
\* subscribe. The client runs the subscription callback for every notification
\* it holds, which is the fairness condition on DeliverInsert
InitLive ==
  /\ InitHooks({"plain", "retry8"})
  /\ InitScanner({"plain"})

NextLive ==
  \/ \E raw \in {RawE7, RawNotJson} : HandleManualScan(raw)
  \/ InsertCommit
  \/ InsertReturn
  \/ InsertError
  \/ DeliverInsert
  \/ \E u \in Users : OtherInsert(u)
  \/ \E s \in LoadSlots : LoadReturn(s)
  \/ SignOut
  \/ \E u \in SessionUsers : SignIn(u, MaxLoadsScan)

SpecLive == InitLive /\ [][NextLive]_vars /\ WF_vars(DeliverInsert)

\* the frame loop alone, on every revision of useQRScanner
InitLoop ==
  /\ InitLocal
  /\ InitScanner(ScannerVariants)

NextLoop ==
  \/ \E i \in 1..MaxPending, frame \in FrameKinds : FrameTick(i, frame)
  \/ \E i \in 1..MaxPending, frame \in FrameKinds : TimerFire(i, frame)
  \/ \E frame \in FrameKinds : RunStartEffect(frame)
  \/ \E b \in BOOLEAN : SetScanning(b)
  \/ Advance

SpecLoop == InitLoop /\ [][NextLoop]_vars

\* camera to table: the frame loop of every revision on the page that uses the
\* hooks, fed with frames of which one shows the QR code of ticket A
InitScan ==
  /\ InitHooks({"plain"})
  /\ InitScanner(ScannerVariants)

\* what the camera shows: the QR code of ticket A until it has been detected,
\* no QR code afterwards
ScanFrames ==
  IF delivered = <<>> THEN FrameKinds \ {"B"} ELSE FrameKinds \ LoopPayloads

NextScan ==
  \/ \E i \in 1..MaxPending, frame \in ScanFrames : FrameTick(i, frame)
  \/ \E i \in 1..MaxPending, frame \in ScanFrames : TimerFire(i, frame)
  \/ \E frame \in ScanFrames : RunStartEffect(frame)
  \/ \E b \in BOOLEAN : SetScanning(b)
  \/ Advance
  \/ OnQRCodeDetected
  \/ AutoCloseCamera
  \/ InsertCommit
  \/ InsertReturn
  \/ InsertError
  \/ DeliverInsert
  \/ \E s \in LoadSlots : LoadReturn(s)

SpecScan == InitScan /\ [][NextScan]_vars

(***************************************************************************)
(* Properties of processQRCode and of the history.                         *)
(***************************************************************************)
\* the run of processQRCode in `att` read a parsed ticket payload
Parsed == att.pc # "idle" /\ ~TryThrows(att.raw)

\* the members of the parsed payload of the run in `att`
Ticket == JSONParse(att.raw).value

\* the row the run in `att` created last
LastRow == store[att.rows[Len(att.rows)]]

\* C1 (classification determinism): a run of processQRCode whose payload names
\* event E and ticket n is classified duplicate, with message 'Ticket already
\* scanned!', when the history it reads holds a valid result for (E, n), and is
\* classified valid, with message 'Valid ticket - Access granted', when that
\* history holds no entry for (E, n), whatever it holds for n under other events.
ClassificationDeterminism ==
  (Parsed /\ Has(Ticket, "eventName") /\ Has(Ticket, "ticketNumber")) =>
    /\ (\E i \in 1..Len(att.seen) :
          /\ att.seen[i].status = "valid"
          /\ att.seen[i].eventName = Ticket.eventName
          /\ att.seen[i].ticketNumber = Ticket.ticketNumber)
       => /\ att.tryResult.status = "duplicate"
          /\ att.tryResult.message = "Ticket already scanned!"
    /\ (\A i \in 1..Len(att.seen) :
          ~ /\ att.seen[i].eventName = Ticket.eventName
            /\ att.seen[i].ticketNumber = Ticket.ticketNumber)
       => /\ att.tryResult.status = "valid"
          /\ att.tryResult.message = "Valid ticket - Access granted"

\* a manual scan of ticket (E, 7) that read a history holding a valid (E, 7)
\* and was classified duplicate
ClassifiedDuplicateReached ==
  /\ att.src = "manual"
  /\ att.raw = RawE7
  /\ \E i \in 1..Len(att.seen) :
       /\ att.seen[i].status = "valid"
       /\ att.seen[i].eventName = "E"
       /\ att.seen[i].ticketNumber = 7
  /\ att.tryResult.status = "duplicate"

\* C2 (duplicate invariant): a result persisted with status duplicate was
\* classified against a history that held a valid result for the same
\* (eventName, ticketNumber).
DuplicateOnlyAfterValid ==
  (Parsed /\ att.rows # <<>> /\ store[att.rows[1]].status = "duplicate") =>
    \E i \in 1..Len(att.seen) :
      /\ att.seen[i].status = "valid"
      /\ att.seen[i].eventName = store[att.rows[1]].event_name
      /\ att.seen[i].ticketNumber = store[att.rows[1]].ticket_number

\* C4 (dedup by id): scanResults never holds two entries with the same id.
NoDuplicateIds ==
  \A i, j \in 1..Len(scanResults) :
    i # j => scanResults[i].id # scanResults[j].id

\* C5 (exactly one per attempt): a run of processQRCode issues at most one
\* insert, and has created exactly one row once the store accepted it.
OneInsertPerAttempt ==
  /\ att.inserts <= 1
  /\ Len(att.rows) <= 1
  /\ att.pc \in {"respTry", "respCatch"} => Len(att.rows) = 1

\* C6 (PersistFailed): when the insert of a parsed, classified payload fails,
\* the run ends by throwing to its caller, issues no further insert and
\* persists nothing.
PersistFailedIsReported ==
  (Parsed /\ att.failed >= 1) =>
    /\ att.pc = "done"
    /\ att.outcome = "threw"
    /\ att.inserts = 1
    /\ att.rows = <<>>

\* C7 (reported success implies recorded): a run that ends with the valid or
\* the duplicate toast has inserted a row, and a run that inserted nothing
\* ends by throwing.
ReportedImpliesRecorded ==
  (page = "hooks" /\ att.pc = "done") =>
    /\ att.outcome \in {"toastValid", "toastDuplicate"} => att.rows # <<>>
    /\ att.rows = <<>> => att.outcome = "threw"

\* the result of the run in `att` is in the history (local page) or in the
\* table (hooks page), with the fields of the catch block's result
PersistedAsInvalid ==
  IF page = "local"
    THEN /\ scanResults # <<>>
         /\ Head(scanResults).eventName = "Invalid"
         /\ Head(scanResults).ticketNumber = 0
         /\ Head(scanResults).status = "invalid"
         /\ Head(scanResults).message = "Invalid QR code format"
    ELSE /\ att.rows # <<>>
         /\ LastRow.event_name = "Invalid"
         /\ LastRow.ticket_number = 0
         /\ LastRow.status = "invalid"
         /\ LastRow.message = "Invalid QR code format"

\* C9 as stated (malformed input): a run on a string JSON.parse rejects ends
\* with the invalid result persisted and without throwing.
MalformedAlwaysPersisted ==
  (att.pc = "done" /\ JSONParse(att.raw).kind = "throw") =>
    /\ att.outcome # "threw"
    /\ PersistedAsInvalid

\* C9 as amended: a run on a string JSON.parse rejects submits the result
\* (Invalid, 0, invalid, 'Invalid QR code format') in at most one insert;
\* when the store accepts the insert, that result is persisted and the run
\* ends with its toast, without throwing; a run that throws persisted nothing.
MalformedInput ==
  (att.pc # "idle" /\ JSONParse(att.raw).kind = "throw") =>
    /\ att.submitted.eventName = "Invalid"
    /\ att.submitted.ticketNumber = 0
    /\ att.submitted.status = "invalid"
    /\ att.submitted.message = "Invalid QR code format"
    /\ att.inserts <= 1
    /\ att.pc = "respCatch" => PersistedAsInvalid
    /\ (att.pc = "done" /\ (att.rows # <<>> \/ page = "local")) =>
         /\ PersistedAsInvalid
         /\ att.outcome = "toastInvalid"
    /\ (att.pc = "done" /\ att.outcome = "threw") => att.rows = <<>>

\* a run on "not json" that the store accepted and that ended with its toast
MalformedPersistedReached ==
  /\ page = "hooks"
  /\ att.pc = "done"
  /\ att.raw = RawNotJson
  /\ att.rows # <<>>
  /\ LastRow.status = "invalid"
  /\ att.outcome = "toastInvalid"

\* C10 (missing-field defaults): the result persisted for a payload that lacks
\* eventName and ticketNumber is (Unknown Event, 0, valid).
MissingFieldDefaults ==
  (Parsed /\ ~Has(Ticket, "eventName") /\ ~Has(Ticket, "ticketNumber")
     /\ att.rows # <<>>) =>
    /\ LastRow.event_name = "Unknown Event"
    /\ LastRow.ticket_number = 0
    /\ LastRow.status = "valid"

\* C17 (no double admission): the table never holds two rows of one user with
\* status valid for the same (event_name, ticket_number).
NoDoubleAdmission ==
  \A i, j \in 1..Len(store) :
    (/\ i # j
     /\ store[i].user_id = store[j].user_id
     /\ store[i].event_name = store[j].event_name
     /\ store[i].ticket_number = store[j].ticket_number
     /\ store[i].status = "valid")
    => store[j].status # "valid"

\* C18 (camera path equals manual path): a run of processQRCode started by a
\* camera detection classifies its payload as a manual submit of the same
\* payload would at that moment, against the scanResults of the page as they
\* are when the detection arrives.
CameraEqualsManual ==
  [][(att.pc \in {"idle", "done"} /\ att' # att /\ att'.src = "camera") =>
       att'.tryResult = BeginAttempt("manual", att'.raw, scanResults, user).tryResult]_vars

(***************************************************************************)
(* Properties of loadScanResults.                                          *)
(***************************************************************************)
\* the attempts a load of the revision may make: the first one and its retries
AttemptLimit ==
  CASE resultsVariant = "retry30" -> 4
    [] resultsVariant = "retry8" -> 3
    [] OTHER -> 1

\* C8 (retry ceiling): a load makes at most ceiling + 1 attempts (4, 3 and 1 in
\* the 30 s, the 8 s and the plain revision); an attempt that fails after the
\* last retry, or with an error the revision does not retry, ends the load with
\* scanResults = [] and isLoading = false, and the load ends there.
LoadRetryCeiling ==
  [][\A s \in LoadSlots :
       /\ load'[s].attempts <= AttemptLimit
       /\ (load[s].pc = "inflight" /\ load'[s].pc = "idle"
             /\ load'[s].last = "failed") =>
            (scanResults' = <<>> /\ isLoading' = FALSE)
       /\ (load[s].pc = "inflight" /\ load[s].attempts = AttemptLimit
             /\ load'[s] # load[s]) =>
            load'[s].pc = "idle"
       /\ (load[s].pc = "backoff" /\ load'[s] # load[s]) =>
            (load'[s].pc = "inflight"
              /\ load'[s].attempts = load[s].attempts + 1)]_vars

\* a load of the 30 s revision that failed four times and ended with the
\* empty history
LoadGaveUpReached ==
  /\ resultsVariant = "retry30"
  /\ load[1].pc = "idle"
  /\ load[1].last = "failed"
  /\ load[1].attempts = 4
  /\ scanResults = <<>>
  /\ isLoading = FALSE

\* the rows of user u among the first k rows of the table, by id
RowIdsOf(u, k) == {i \in 1..k : store[i].user_id = u}

\* list `results` shows row i of the table at position j
ShowsRow(results, j, i) ==
  /\ results[j].id = store[i].id
  /\ results[j].eventName = store[i].event_name
  /\ results[j].ticketNumber = store[i].ticket_number
  /\ results[j].status = store[i].status
  /\ results[j].message = store[i].message

DebounceIdempotence ==
  \A j \in 2..Len(delivered) :
    (/\ delivered[j].payload = delivered[j - 1].payload
     /\ delivered[j].epoch = delivered[j - 1].epoch)
    => delivered[j].time - delivered[j - 1].time >
         (IF scannerVariant = "auto1000" THEN 1000 ELSE 2000)

\* the runs of scanQRCode that can happen next, each with the closure it runs
\* and the loop state it starts from: the callback of a pending animation
\* frame, the callback of a pending start timer, and the call made by the start
\* effect that is due in the revisions whose effect calls scanQRCode itself
RunsNow ==
  {[c |-> pendingFrames[i].c,
    st |-> [LoopState EXCEPT !.frames = RemoveAt(pendingFrames, i)]] :
      i \in (IF effectPending THEN {} ELSE 1..Len(pendingFrames))}
  \cup
  {[c |-> pendingTimers[i].c, st |-> LoopState] :
      i \in (IF effectPending THEN {} ELSE 1..Len(pendingTimers))}
  \cup
  (IF effectPending /\ isScanning /\ scannerVariant \in {"plain", "auto1000"}
     THEN {[c |-> CurrentClosure, st |-> [LoopState EXCEPT !.frames = CancelFrame(@)]]}
     ELSE {})

\* the loop state after run r of scanQRCode on a frame
RunOn(r, frame) ==
  ScanQRCode(scannerVariant, autoCloseOnScan, r.c, frame, now, epoch, r.st)

\* the call of onQRCodeDetected a run on payload p makes now
DeliveryNow(p) == [payload |-> p, time |-> now, epoch |-> epoch]

\* C11 (debounce expiry): while scanning is active, a run of scanQRCode that
\* decodes a payload p whose deliveries all lie more than the debounce window
\* (2000 ms, 1000 ms in the 1 s revision) in the past calls onQRCodeDetected(p)
\* again.
DebounceExpiry ==
  \A r \in RunsNow, p \in LoopPayloads :
    (/\ isScanning
     /\ r.c.scanning
     /\ \E j \in 1..Len(delivered) : delivered[j].payload = p
     /\ \A j \in 1..Len(delivered) :
          delivered[j].payload = p =>
            now - delivered[j].time > (IF scannerVariant = "auto1000" THEN 1000 ELSE 2000))
    => RunOn(r, p).delivered = Append(delivered, DeliveryNow(p))

\* a debouncing revision delivered the same payload twice in one scanning
\* period, the second time more than the window after the first
DebounceExpiredReached ==
  /\ HasDebounce(scannerVariant)
  /\ \E j \in 2..Len(delivered) :
       /\ delivered[j].payload = delivered[j - 1].payload
       /\ delivered[j].epoch = delivered[j - 1].epoch
       /\ delivered[j].time - delivered[j - 1].time >
            (IF scannerVariant = "auto1000" THEN 1000 ELSE 2000)

\* C12 (distinct-payload pass-through): with autoCloseOnScan = false, a run of
\* scanQRCode that follows the delivery of p1 and decodes p2 # p1 calls
\* onQRCodeDetected(p2), whatever the time since p1.
DistinctPayloadPassThrough ==
  \A r \in RunsNow, p2 \in LoopPayloads :
    (/\ TakesAutoClose(scannerVariant)
     /\ ~autoCloseOnScan
     /\ isScanning
     /\ r.c.scanning
     /\ delivered # <<>>
     /\ delivered[Len(delivered)].epoch = epoch
     /\ delivered[Len(delivered)].payload # p2)
    => RunOn(r, p2).delivered = Append(delivered, DeliveryNow(p2))

\* C13 (start is idempotent): at most one scheduled tick, animation frame or
\* start timer, is pending.
AtMostOneTickPending ==
  Len(pendingFrames) + Len(pendingTimers) <= 1

\* C14 (stop leaves nothing pending): once isScanning is false and the start
\* effect of that render has run, no animation frame and no start timer is
\* pending.
NothingPendingWhenStopped ==
  (~isScanning /\ ~effectPending) =>
    (pendingFrames = <<>> /\ pendingTimers = <<>>)

\* C19 (suppressed detection keeps the loop running): while scanning is active,
\* a run that decodes the payload delivered last, inside the debounce window,
\* does not call onQRCodeDetected and schedules the next tick, with
\* autoCloseOnScan true as with false.
SuppressedKeepsLoop ==
  \A r \in RunsNow, p \in LoopPayloads :
    (/\ HasDebounce(scannerVariant)
     /\ isScanning
     /\ r.c.scanning
     /\ p = lastDetectedCode
     /\ now - lastDetectionTime <= (IF scannerVariant = "auto1000" THEN 1000 ELSE 2000))
    => /\ RunOn(r, p).delivered = delivered
       /\ Len(RunOn(r, p).frames) = Len(r.st.frames) + 1

\* C20 (auto-close stops the loop): in the revision that always stops after a
\* detection, and with autoCloseOnScan = true, a scanning period sees at most
\* one call of onQRCodeDetected, and after that call no run of scanQRCode that
\* reads isScanning = true is left while isScanning stays true.
AutoCloseStopsLoop ==
  (scannerVariant = "stop" \/ (TakesAutoClose(scannerVariant) /\ autoCloseOnScan)) =>
    /\ \A j, k \in 1..Len(delivered) :
         j # k => delivered[j].epoch # delivered[k].epoch
    /\ (isScanning /\ \E j \in 1..Len(delivered) : delivered[j].epoch = epoch) =>
         \A r \in RunsNow : ~r.c.scanning

NewerThanAnswer(s, id) ==
  /\ id \in 1..Len(store)
  /\ store[id].user_id = load[s].user
  /\ \A d \in 1..Len(load[s].data) : load[s].data[d].id < id

\* C21 (a stale load does not erase newer results): when a load completes
\* with data, every row shown in scanResults that was inserted after the store
\* answered that load is still in scanResults afterwards.
StaleLoadKeepsNewer ==
  [][\A s \in LoadSlots :
      (load[s].pc = "inflight" /\ load'[s].pc = "idle" /\ load'[s].last = "ok") =>
        \A j \in 1..Len(scanResults) :
          NewerThanAnswer(s, scanResults[j].id) =>
            \E k \in 1..Len(scanResults') : scanResults'[k].id = scanResults[j].id]_vars

\* the calls of loadScanResults that have not completed: waiting for the
\* store or for the end of a backoff wait
LoadsInFlight == {s \in LoadSlots : load[s].pc # "idle"}

\* C22 (single load in flight): at most one loadScanResults operation is in
\* flight for a session at any time; the periodic refreshes of the Scanner
\* and of the Dashboard page start no load while an earlier one, its retries
\* and backoff waits included, has not completed.
SingleLoadInFlight == Cardinality(LoadsInFlight) <= 1

\* the channel holds the INSERT notification of row `id`, not yet merged
Notified(id) == \E q \in 1..Len(channel.queue) : channel.queue[q].id = id

\* scanResults shows row `id`
Shown(id) == \E j \in 1..Len(scanResults) : scanResults[j].id = id

\* C23 (live updates reach every session): every row inserted for user u, by
\* this session or another, while the session holds its subscription for u is
\* notified to it, is put at the front of scanResults when it is merged, and
\* eventually appears in scanResults unless the subscription ends first.
LiveUpdatesReach ==
  /\ [][(/\ Len(store') = Len(store) + 1
         /\ channel.user # NoUser
         /\ store'[Len(store')].user_id = channel.user) =>
           \E q \in 1..Len(channel'.queue) : channel'.queue[q].id = Len(store')]_vars
  /\ [][\A id \in 1..MaxRows :
          (/\ Notified(id)
           /\ channel'.user = channel.user
           /\ ~\E q \in 1..Len(channel'.queue) : channel'.queue[q].id = id) =>
            (scanResults' # <<>> /\ scanResults'[1].id = id)]_vars
  /\ \A id \in 1..MaxRows : Notified(id) ~> (Shown(id) \/ channel.user = NoUser)

\* the row of the session's own submit is at the front of scanResults, in
\* front of an older row, while the first load has not answered yet: only the
\* live update can have put it there
OwnSubmitMergedReached ==
  /\ isLoading
  /\ att.rows # <<>>
  /\ Len(scanResults) = 2
  /\ scanResults[1].id = att.rows[1]
  /\ channel.user = user

(***************************************************************************)
(* Properties of the ticks that deliver nothing.                           *)
(***************************************************************************)
\* C24 (benign ticks never stop the loop): while scanning is active, a run of
\* scanQRCode that finds the video or the canvas missing, no frame yet, a
\* frame of zero width or height, or no QR code calls onQRCodeDetected not at
\* all, raises no error and schedules the next tick.
BenignTicksKeepLoop ==
  \A r \in RunsNow, frame \in {"noRef", "notReady", "zeroDim", "noQR"} :
    (isScanning /\ r.c.scanning) =>
      /\ RunOn(r, frame).delivered = delivered
      /\ ~RunOn(r, frame).threw
      /\ Len(RunOn(r, frame).frames) = Len(r.st.frames) + 1

\* C25 (decoder exceptions are no-detections): while scanning is active, a run
\* of scanQRCode in which the decoder, or the copy of the frame that feeds it,
\* throws keeps the exception inside the tick, calls onQRCodeDetected not at
\* all and schedules the next tick.
DecoderThrowIsNoDetection ==
  \A r \in RunsNow :
    (isScanning /\ r.c.scanning) =>
      /\ RunOn(r, "throws").delivered = delivered
      /\ ~RunOn(r, "throws").threw
      /\ Len(RunOn(r, "throws").frames) = Len(r.st.frames) + 1

(***************************************************************************)
(* Further properties of processQRCode, of the loads and of the scanner.   *)
(***************************************************************************)
\* C26 (duplicate check uses the extracted key): the run of processQRCode in
\* `att` on a parsed payload persists the pair (eventName, ticketNumber) it
\* has after the fallbacks, and classifies the payload as duplicate when an
\* entry of the history it reads carries that pair.
DuplicateCheckUsesExtractedKey ==
  /\ (Parsed /\ att.pc = "respTry") =>
       /\ LastRow.event_name = att.tryResult.eventName
       /\ LastRow.ticket_number = att.tryResult.ticketNumber
  /\ (Parsed /\ \E i \in 1..Len(att.seen) :
                  /\ att.seen[i].eventName = att.tryResult.eventName
                  /\ att.seen[i].ticketNumber = att.tryResult.ticketNumber)
       => att.tryResult.status = "duplicate"

\* C27 (no results after sign-out): while no user is signed in scanResults is
\* empty, also when a load of the previous user completes after the sign-out,
\* and scanResults never shows a row of another user than the current one.
NoResultsAfterSignOut ==
  page # "local" =>
    /\ user = NoUser => scanResults = <<>>
    /\ \A j \in 1..Len(scanResults) : store[scanResults[j].id].user_id = user

\* the errors the statement counts as transient
TransientErrors == {"timeout", "fetch", "abort"}

\* C28 (exponential backoff): the wait of loadScanResults before the retry that
\* follows attempt k is 1000 * 2^k ms (1000, 2000, 4000 for k = 0, 1, 2), twice
\* the wait before, and never more than 5000 ms; a retry starts only after
\* that wait; an error that is not transient is not retried.
ExponentialBackoff ==
  [][\A s \in LoadSlots :
       /\ (load[s].pc = "inflight" /\ load'[s].pc = "backoff") =>
            /\ load'[s].last \in TransientErrors
            /\ load'[s].delay <= 5000
            /\ load'[s].delay = (CASE load[s].retryCount = 0 -> 1000
                                   [] load[s].retryCount = 1 -> 2000
                                   [] load[s].retryCount = 2 -> 4000
                                   [] OTHER -> 5000)
       /\ (load'[s].retryCount = load[s].retryCount + 1) =>
            (load[s].pc = "backoff" /\ load[s].delay > 0)]_vars

\* C29 (debounce state changes only on delivery): in the revisions that
\* debounce, a step that calls onQRCodeDetected sets (lastDetectedCode,
\* lastDetectionTime) to the payload delivered and the time of the call, and
\* every other step (a tick without a frame or a QR code, a suppressed
\* detection, a stop or a restart of the loop) leaves the pair unchanged.
DebounceStateOnlyOnDelivery ==
  [][scannerVariant # "plain" =>
       /\ delivered' # delivered =>
            /\ Len(delivered') = Len(delivered) + 1
            /\ lastDetectedCode' = delivered'[Len(delivered')].payload
            /\ lastDetectionTime' = delivered'[Len(delivered')].time
            /\ lastDetectionTime' = now
       /\ delivered' = delivered =>
            /\ lastDetectedCode' = lastDetectedCode
            /\ lastDetectionTime' = lastDetectionTime]_vars

\* two detections were delivered, the debounce state is that of the second,
\* the loop has been stopped since and the clock has moved on
DebounceStateKeptReached ==
  /\ scannerVariant = "auto2000"
  /\ Len(delivered) = 2
  /\ lastDetectedCode = delivered[2].payload
  /\ lastDetectionTime = delivered[2].time
  /\ lastDetectionTime > delivered[1].time
  /\ now > lastDetectionTime
  /\ ~isScanning

\* C30 (auto-close releases the camera): whenever the camera has been stopped,
\* by the Stop Camera button or by the auto-close timer of
\* handleQRCodeDetected, every track of the stream started last is stopped
\* and the stream state is cleared: no state has isScanning false with a
\* live track or a stream held.
AutoCloseReleasesCamera ==
  ~isScanning => (liveTracks = {} /\ stream = 0)

====
